---- MODULE Spec2Model ----
(***************************************************************************)
(* A model of the arXiv crawler: run() of main.py driving                  *)
(* download_all_versions (downloader.py), the collaborators, the           *)
(* CrawlerStatistics aggregate (crawler_stats.py) and the BenchmarkMonitor *)
(* sampler thread (benchmark.py); and check_paper_exists of discovery.py.  *)
(*                                                                         *)
(* An identifier 'YYYYMM-NNNNN' of one run is represented by its sequence  *)
(* number NNNNN (year and month are fixed for a run); a version string     *)
(* '<base_id>vK' of the paper being processed by its number K.  Time is    *)
(* counted in whole seconds.                                               *)
(***************************************************************************)
EXTENDS Integers, Sequences, FiniteSets, TLC

\* ------------------------------------------------------------------ bounds
\* Largest number of identifiers in the range of one run.
MaxIds == 2
\* The sampler takes at most this many samples in one behaviour.
MaxSamples == 2
\* Largest number of '-'-separated segments of an identifier string.
MaxSegments == 3
\* Calls of fetch_and_write_references in one run.
MaxFetches == 2
\* Clock ticks in one second, for the timing of the Semantic Scholar requests.
TicksPerSecond == 2
\* Longest duration of one request, longest oversleep of one time.sleep, and
\* longest time between two calls of fetch_and_write_references, in ticks.
MaxLatency == 1
MaxOversleep == 1
MaxBetween == 2
\* Most references with an arXiv id in one answer of Semantic Scholar.
MaxRefs == 2
\* The clock of the timed run stops at MaxTime seconds.
MaxTime == 7
\* Largest max_tries, delay (seconds) and backoff given to retry.
MaxTriesArg == 4
MaxDelayArg == 2
MaxBackoffArg == 3
\* Calls of a rate-limited function in one behaviour, the largest
\* min_interval_sec, the longest time between the end of a call and the
\* next call, and the longest duration of the wrapped function (seconds).
MaxCalls == 3
MaxIntervalArg == 2
MaxIdle == 2
MaxDuration == 1

\* ------------------------------------------------------- program constants
\* for v in range(1, 11)
MaxVersions == 10
\* max_retries = 3
MaxRetries == 3
\* retry_delay = 5.0
RetryDelay == 5
\* the floor of time.sleep(max(3.0, rate_limit))
MinInterval == 3
\* self._monitor_thread.join(timeout=5)
JoinTimeout == 5
\* BenchmarkMonitor(output_dir=out_root, log_interval=10)
RunLogInterval == 10
\* for v in range(1, 11) of check_paper_exists
ProbeMaxVersions == 10

\* --------------------------------------------------------- input domains
\* --wait values: below and above the 3 s floor.
RateLimits == {1, 4}
\* Resident memory readings (MB) the process can show.
MemValues == {7}
\* Sizes of the output tree (MB) a measurement can find.
DiskValues == {3}
\* Steps of one identifier's processing that can raise.
RaisingSteps == {"ensure", "download", "strip", "metadata", "refs"}
\* The reason written for an identifier that had no version.
NoVersionsReason == "No versions found"
\* str(e), the reason written for an identifier whose processing raised.
ExcReason == "str(e)"
\* An entry left in failed_ids.txt by an earlier run (identifier 0 is never
\* in the range of this run).
OldLine == <<0, "earlier run">>

VARIABLES
    \* run() of main.py
    pc, rangeFrom, rangeTo, rateLimit, idx, stats, success_count, fail_count,
    failedFile, failedAtStart, raised, escaped, results, size, versions,
    \* download_all_versions
    v, attempt, sinceReq, anyReq,
    \* observers of one download_all_versions call
    tried, resps, sleeps, files, requests,
    \* BenchmarkMonitor and its thread
    spc, stopSet, logInterval, start_time, end_time, cur, timestamps,
    memory_readings, disk_readings, csvRows, joined, stopCalls, statsWrites,
    memSeen, diskSeen, lenAtStop,
    \* the clock
    now, waitDeadline, joinStart, busy,
    \* check_paper_exists of discovery.py
    ppc, pv, pversions, perrs,
    \* an identifier string, what the three _convert_id_format return for
    \* it, and what _parse_arxiv_id returns for the converted string
    cin, couts, cback,
    \* refs.py: the module's deque of grant times, the locals of
    \* fetch_and_write_references, and observers of its requests
    rpc, api_call_times, r_status, retry_count, fetches, lastGap, granted,
    unguarded, waits, last_outcome, api_success, ref_entries, refsFile,
    refReturn, ref_requests,
    \* write_metadata_json of metadata.py: the version queried, what failed,
    \* and metadata.json
    metaQueried, metaFault, metaFile,
    \* utils.py: one call of a function wrapped by retry (its arguments, the
    \* locals of the wrapper, the calls and sleeps made, how it ended), and
    \* a function wrapped by rate_limited (its argument, the clock, the
    \* cell last_call[0], when each call of the function began and whether
    \* it raised)
    rpcw, max_tries, delay, backoff, try_attempt, cur_delay, calls,
    retry_sleeps, ended, lpc, min_interval_sec, clock, last_call, starts,
    raises

inVars == <<rangeFrom, rangeTo, rateLimit, logInterval, failedAtStart>>
loopVars == <<idx, stats, success_count, fail_count, failedFile, raised,
              escaped, results, size, versions>>
runVars == <<pc, loopVars>>
dlVars == <<v, attempt, sinceReq, anyReq>>
obsVars == <<tried, resps, sleeps, files, requests>>
thrVars == <<spc, cur, timestamps, memory_readings, disk_readings, csvRows>>
monVars == <<stopSet, start_time, end_time, joined, stopCalls, statsWrites,
             memSeen, diskSeen, lenAtStop>>
tVars == <<now, waitDeadline, joinStart, busy>>
probeVars == <<ppc, pv, pversions, perrs>>
\* the identifier converters applied to one input
convVars == <<cin, couts, cback>>
refVars == <<rpc, api_call_times, r_status, retry_count, fetches, lastGap,
            granted, unguarded, waits, last_outcome, api_success, ref_entries,
            refsFile, refReturn, ref_requests>>
metaVars == <<metaQueried, metaFault, metaFile>>
retryVars == <<rpcw, max_tries, delay, backoff, try_attempt, cur_delay, calls,
               retry_sleeps, ended>>
limVars == <<lpc, min_interval_sec, clock, last_call, starts, raises>>
decVars == <<retryVars, limVars>>
otherVars == <<convVars, refVars, metaVars, decVars>>
vars == <<inVars, runVars, dlVars, obsVars, thrVars, monVars, tVars, probeVars,
          otherVars>>

\* ------------------------------------------------------------- helpers
Max(a, b) == IF a >= b THEN a ELSE b

RECURSIVE SeqSum(_)
SeqSum(s) == IF s = <<>> THEN 0 ELSE Head(s) + SeqSum(Tail(s))

SeqMin(s) == CHOOSE x \in {s[i] : i \in 1..Len(s)} :
                 \A i \in 1..Len(s) : x <= s[i]
SeqMax(s) == CHOOSE x \in {s[i] : i \in 1..Len(s)} :
                 \A i \in 1..Len(s) : x >= s[i]

\* id_range(start_id, end_id, year, month): range(start_id, end_id + 1)
IdRange == rangeFrom..rangeTo

\* time.sleep(max(3.0, rate_limit))
Cooldown == Max(MinInterval, rateLimit)

\* A backoff that does not grow: the same delay before every retry.
BackoffFixed(a) == RetryDelay

\* backoff = retry_delay * (2 ** attempt), attempt counted from 0
Backoff(a) == RetryDelay * (2 ^ a)

\* CrawlerStatistics.__init__
NewStats == [total_papers |-> 0, successful_papers |-> 0, failed_papers |-> 0,
             paper_sizes |-> <<>>, reference_counts |-> <<>>,
             papers_with_references |-> 0, papers_attempted_references |-> 0,
             total_runtime |-> 0, memory_stats |-> "None", disk_stats |-> "None"]

\* CrawlerStatistics.add_failure
add_failure(s) == [s EXCEPT !.failed_papers = @ + 1]

\* CrawlerStatistics.add_success
add_success(s, sizes, ref_count, ref_success) ==
    [s EXCEPT !.successful_papers = @ + 1,
              !.paper_sizes = Append(@, sizes),
              !.reference_counts = Append(@, ref_count),
              !.papers_attempted_references = @ + 1,
              !.papers_with_references =
                  IF ref_success /\ ref_count > 0 THEN @ + 1 ELSE @]

\* A log_failed_id that opens the file with "w": earlier lines are lost.
log_failed_id_truncating(f, base_id, reason) == <<<<base_id, reason>>>>

\* log_failed_id: open(file_path, "a") and write one line
log_failed_id(f, base_id, reason) == Append(f, <<base_id, reason>>)

\* get_memory_stats / get_disk_stats over a list of readings (avg in whole MB)
ReadingStats(l) ==
    IF l = <<>> THEN [min |-> 0, max |-> 0, avg |-> 0]
    ELSE [min |-> SeqMin(l), max |-> SeqMax(l), avg |-> SeqSum(l) \div Len(l)]

\* What strip_figures_and_images can return: (size_before, size_after).
Sizes == {<<4, 2>>}
\* What fetch_and_write_references can return: (reference_count, api_success).
RefResults == {<<0, FALSE>>, <<0, TRUE>>, <<2, TRUE>>}

\* ------------------------------------------------------------------- Init
\* run() is entered with range_to drawn from tos.
InitRunOver(tos) ==
    /\ pc = "start"
    /\ rangeFrom = 1
    /\ rangeTo \in tos
    /\ rateLimit \in RateLimits
    /\ idx = 0
    /\ stats = NewStats
    /\ success_count = 0
    /\ fail_count = 0
    /\ failedFile \in {<<>>, <<OldLine>>}
    /\ failedAtStart = failedFile
    /\ raised = "none"
    /\ escaped = FALSE
    /\ results = <<>>
    /\ size = <<0, 0>>
    /\ versions = <<>>

\* A range of zero to MaxIds identifiers.
InitRun == InitRunOver(0..MaxIds)

InitDownload ==
    /\ v = 0
    /\ attempt = 0
    /\ sinceReq = 0
    /\ anyReq = FALSE
    /\ tried = 0
    /\ requests = 0
    /\ resps = <<>>
    /\ sleeps = <<>>
    /\ files = {}

\* BenchmarkMonitor.__init__
InitMonitor ==
    /\ spc = "none"
    /\ stopSet = FALSE
    /\ start_time = -1
    /\ end_time = -1
    /\ cur = [ts |-> 0, elapsed |-> 0, mem |-> 0, disk |-> 0]
    /\ timestamps = <<>>
    /\ memory_readings = <<>>
    /\ disk_readings = <<>>
    /\ csvRows = <<>>
    /\ joined = FALSE
    /\ stopCalls = 0
    /\ statsWrites = 0
    /\ memSeen = [n |-> -1, st |-> ReadingStats(<<>>)]
    /\ diskSeen = [n |-> -1, st |-> ReadingStats(<<>>)]
    /\ lenAtStop = <<>>

InitClock ==
    /\ now = 0
    /\ waitDeadline = 0
    /\ joinStart = 0
    /\ busy = 0

InitProbeIdle ==
    /\ ppc = "idle"
    /\ pv = 0
    /\ pversions = <<>>
    /\ perrs = {}

\* No converter has been called.
NotCalled == [kind |-> "not called", value |-> <<>>]

InitConvIdle ==
    /\ cin = <<>>
    /\ couts = [downloader |-> NotCalled, metadata |-> NotCalled,
                refs |-> NotCalled]
    /\ cback = NotCalled

\* refs.py as imported: the deque of grant times is empty, no fetch yet.
\* api_call_times holds the age in ticks of the recorded grant time, that
\* is time.time() minus the deque's element, counted up to one second.
InitRefIdle ==
    /\ rpc = "idle"
    /\ api_call_times = <<>>
    /\ r_status = "none"
    /\ retry_count = 0
    /\ fetches = 0
    /\ lastGap = <<>>
    /\ granted = FALSE
    /\ unguarded = 0
    /\ waits = <<>>
    /\ last_outcome = "none"
    /\ api_success = FALSE
    /\ ref_entries = 0
    /\ refsFile = <<>>
    /\ refReturn = <<>>
    /\ ref_requests = 0

\* write_metadata_json not yet called: no metadata.json in the paper folder.
InitMetaIdle ==
    /\ metaQueried = 0
    /\ metaFault = "none"
    /\ metaFile = <<>>

\* No decorated function is in use: neither decorator is applied anywhere
\* in the package.
InitRetryIdle ==
    /\ rpcw = "idle"
    /\ max_tries = 3
    /\ delay = 1
    /\ backoff = 2
    /\ try_attempt = 0
    /\ cur_delay = 0
    /\ calls = <<>>
    /\ retry_sleeps = <<>>
    /\ ended = <<>>

InitLimIdle ==
    /\ lpc = "idle"
    /\ min_interval_sec = 1
    /\ clock = 1
    /\ last_call = 0
    /\ starts = <<>>
    /\ raises = <<>>

InitDecIdle == InitRetryIdle /\ InitLimIdle

InitOther == InitConvIdle /\ InitRefIdle /\ InitMetaIdle /\ InitDecIdle

Init ==
    /\ InitRun
    /\ logInterval = RunLogInterval
    /\ InitDownload
    /\ InitMonitor
    /\ InitClock
    /\ InitProbeIdle
    /\ InitOther

\* ------------------------------------------------------ run(): the start
\* total = range_to - range_from + 1; stats = CrawlerStatistics();
\* stats.set_total(total)
RunStart ==
    /\ pc = "start"
    /\ stats' = [NewStats EXCEPT !.total_papers = rangeTo - rangeFrom + 1]
    /\ pc' = "start_monitor"
    /\ UNCHANGED <<inVars, idx, success_count, fail_count, failedFile, raised,
                   escaped, results, size, versions, dlVars, thrVars, monVars>>

\* monitor.start(): the start time, the cleared stop event, the CSV file
\* rewritten with its header, the thread started.  Then run() enters the
\* for loop at the first identifier of id_range.
MonitorStart ==
    /\ pc = "start_monitor"
    /\ start_time' = now
    /\ stopSet' = FALSE
    /\ csvRows' = <<>>
    /\ spc' = "check"
    /\ idx' = rangeFrom
    /\ pc' = "loop"
    /\ UNCHANGED <<inVars, stats, success_count, fail_count, failedFile,
                   raised, escaped, results, size, versions, dlVars, cur,
                   timestamps, memory_readings, disk_readings, end_time,
                   joined, stopCalls, statsWrites, memSeen, diskSeen,
                   lenAtStop>>

\* for base_id in id_range(...): the next identifier
LoopNext ==
    /\ pc = "loop"
    /\ idx \in IdRange
    /\ pc' = "ensure"
    /\ UNCHANGED <<inVars, loopVars, dlVars, thrVars, monVars>>

\* the for loop is exhausted: control reaches the finally block
LoopExhausted ==
    /\ pc = "loop"
    /\ idx \notin IdRange
    /\ pc' = "finally"
    /\ UNCHANGED <<inVars, loopVars, dlVars, thrVars, monVars>>

\* paper_dir = ensure_paper_folder(out_root, base_id)
EnsureFolder ==
    /\ pc = "ensure"
    /\ pc' = "dl_begin"
    /\ UNCHANGED <<inVars, loopVars, dlVars, thrVars, monVars>>

\* ------------------------------------------------- download_all_versions
\* versions = []; the identifier converted; tex/ created; v = 1 and the
\* first attempt of the retry loop.
DownloadBegin ==
    /\ pc = "dl_begin"
    /\ v' = 1
    /\ attempt' = 0
    /\ versions' = <<>>
    /\ pc' = "request"
    /\ UNCHANGED <<inVars, idx, stats, success_count, fail_count, failedFile,
                   raised, escaped, results, size, sinceReq, anyReq, thrVars,
                   monVars>>

\* requests.get(source_url, timeout=30) is issued for version v; sinceReq,
\* the sleep made since the latest request of this run, counts again from
\* the sleep that follows the response.
Issue(sleepAfter) ==
    /\ anyReq' = TRUE
    /\ sinceReq' = sleepAfter

\* return versions: the frame of the call is gone
ReturnVersions ==
    /\ pc' = "check_versions"
    /\ v' = 0
    /\ attempt' = 0
    /\ UNCHANGED versions

\* the retry loop sleeps and tries the same version again
\* A retry that begins the attempts of the version again.
RetryFromFirstAttempt ==
    /\ attempt' = 0
    /\ pc' = "request"
    /\ UNCHANGED <<v, versions>>

Retry ==
    /\ attempt' = attempt + 1
    /\ pc' = "request"
    /\ UNCHANGED <<v, versions>>

\* status 200: the archive written, the version recorded,
\* time.sleep(max(3.0, rate_limit)), break to the next version
Resp200 ==
    /\ pc = "request"
    /\ Issue(Cooldown)
    /\ versions' = Append(versions, v)
    /\ IF v < MaxVersions
          THEN /\ v' = v + 1
               /\ attempt' = 0
               /\ pc' = "request"
          ELSE /\ pc' = "cap"
               /\ UNCHANGED <<v, attempt>>
    /\ UNCHANGED <<inVars, idx, stats, success_count, fail_count, failedFile,
                   raised, escaped, results, size, thrVars, monVars>>

\* A 404 that is logged and then skipped: the version loop goes on with
\* the next version.
Resp404Skips ==
    /\ pc = "request"
    /\ v < MaxVersions
    /\ Issue(0)
    /\ v' = v + 1
    /\ attempt' = 0
    /\ pc' = "request"
    /\ UNCHANGED <<inVars, loopVars, thrVars, monVars>>

\* status 404: return versions
Resp404 ==
    /\ pc = "request"
    /\ Issue(0)
    /\ ReturnVersions
    /\ UNCHANGED <<inVars, idx, stats, success_count, fail_count, failedFile,
                   raised, escaped, results, size, thrVars, monVars>>

\* A 429 that gives the version up after the last attempt and goes on with
\* the next version.
Resp429Skips ==
    /\ pc = "request"
    /\ IF attempt < MaxRetries - 1
          THEN Issue(Backoff(attempt)) /\ Retry
          ELSE /\ Issue(0)
               /\ IF v < MaxVersions
                     THEN v' = v + 1 /\ attempt' = 0 /\ pc' = "request"
                     ELSE pc' = "cap" /\ UNCHANGED <<v, attempt>>
               /\ UNCHANGED versions
    /\ UNCHANGED <<inVars, idx, stats, success_count, fail_count, failedFile,
                   raised, escaped, results, size, thrVars, monVars>>

\* status 429: back off and retry while attempt < max_retries - 1, else
\* return versions
Resp429 ==
    /\ pc = "request"
    /\ IF attempt < MaxRetries - 1
          THEN Issue(Backoff(attempt)) /\ Retry
          ELSE Issue(0) /\ ReturnVersions
    /\ UNCHANGED <<inVars, idx, stats, success_count, fail_count, failedFile,
                   raised, escaped, results, size, thrVars, monVars>>

\* An unexpected status that is logged and then skipped: the version loop
\* goes on with the next version.
RespOtherSkips ==
    /\ pc = "request"
    /\ v < MaxVersions
    /\ Issue(0)
    /\ v' = v + 1
    /\ attempt' = 0
    /\ pc' = "request"
    /\ UNCHANGED <<inVars, loopVars, thrVars, monVars>>

\* any other status: return versions
RespOther ==
    /\ pc = "request"
    /\ Issue(0)
    /\ ReturnVersions
    /\ UNCHANGED <<inVars, idx, stats, success_count, fail_count, failedFile,
                   raised, escaped, results, size, thrVars, monVars>>

\* A timeout handled with the exponential backoff of the 429 branch.
RespTimeoutBacksOff ==
    /\ pc = "request"
    /\ IF attempt < MaxRetries - 1
          THEN Issue(Backoff(attempt)) /\ Retry
          ELSE Issue(0) /\ ReturnVersions
    /\ UNCHANGED <<inVars, idx, stats, success_count, fail_count, failedFile,
                   raised, escaped, results, size, thrVars, monVars>>

\* requests.exceptions.Timeout: sleep retry_delay and retry while
\* attempt < max_retries - 1, else return versions
RespTimeout ==
    /\ pc = "request"
    /\ IF attempt < MaxRetries - 1
          THEN Issue(RetryDelay) /\ Retry
          ELSE Issue(0) /\ ReturnVersions
    /\ UNCHANGED <<inVars, idx, stats, success_count, fail_count, failedFile,
                   raised, escaped, results, size, thrVars, monVars>>

\* Another exception that is logged and then retried like a timeout.
RespErrorRetries ==
    /\ pc = "request"
    /\ IF attempt < MaxRetries - 1
          THEN Issue(RetryDelay) /\ Retry
          ELSE Issue(0) /\ ReturnVersions
    /\ UNCHANGED <<inVars, idx, stats, success_count, fail_count, failedFile,
                   raised, escaped, results, size, thrVars, monVars>>

\* any other exception, raised by the request or, after a 200, by writing
\* the archive: return versions
RespError ==
    /\ pc = "request"
    /\ Issue(0)
    /\ ReturnVersions
    /\ UNCHANGED <<inVars, idx, stats, success_count, fail_count, failedFile,
                   raised, escaped, results, size, thrVars, monVars>>

\* the version loop ran to its end (version 10 was downloaded):
\* time.sleep(max(3.0, rate_limit)); return versions
DownloadCapReturn ==
    /\ pc = "cap"
    /\ sinceReq' = sinceReq + Cooldown
    /\ ReturnVersions
    /\ UNCHANGED <<inVars, idx, stats, success_count, fail_count, failedFile,
                   raised, escaped, results, size, anyReq, thrVars, monVars>>

\* One attempt: a request and the handling of what comes back.
RequestStep ==
    Resp200 \/ Resp404 \/ Resp429 \/ RespOther \/ RespTimeout \/ RespError

\* ------------------------------------------- run(): one identifier
\* The iteration is over: its versions and sizes are not read again.
EndIteration ==
    /\ idx' = idx + 1
    /\ versions' = <<>>
    /\ size' = <<0, 0>>
    /\ pc' = "loop"

\* The failure branch without its 'continue': the failure is recorded and
\* the iteration goes on to the collaborators.
NoVersionsFallsThrough ==
    /\ pc = "check_versions"
    /\ versions = <<>>
    /\ failedFile' = log_failed_id(failedFile, idx, NoVersionsReason)
    /\ stats' = add_failure(stats)
    /\ fail_count' = fail_count + 1
    /\ pc' = "strip"
    /\ UNCHANGED <<inVars, idx, success_count, raised, escaped, results, size,
                   versions, dlVars, thrVars, monVars>>

\* if not versions: log_failed_id(...); stats.add_failure(); fail_count += 1;
\* continue
NoVersions ==
    /\ pc = "check_versions"
    /\ versions = <<>>
    /\ failedFile' = log_failed_id(failedFile, idx, NoVersionsReason)
    /\ stats' = add_failure(stats)
    /\ fail_count' = fail_count + 1
    /\ results' = Append(results, <<idx, "no_versions">>)
    /\ EndIteration
    /\ UNCHANGED <<inVars, success_count, raised, escaped, dlVars, thrVars,
                   monVars>>

\* versions is not empty: on to the collaborators
HasVersions ==
    /\ pc = "check_versions"
    /\ versions /= <<>>
    /\ pc' = "strip"
    /\ UNCHANGED <<inVars, loopVars, dlVars, thrVars, monVars>>

\* size_before, size_after = strip_figures_and_images(paper_dir)
StripFigures ==
    /\ pc = "strip"
    /\ size' \in Sizes
    /\ pc' = "metadata"
    /\ UNCHANGED <<inVars, idx, stats, success_count, fail_count, failedFile,
                   raised, escaped, results, versions, dlVars, thrVars,
                   monVars>>

\* write_metadata_json(base_id, paper_dir, versions)
WriteMetadata ==
    /\ pc = "metadata"
    /\ pc' = "refs"
    /\ UNCHANGED <<inVars, loopVars, dlVars, thrVars, monVars>>

\* A success that is also logged as a row of the benchmark CSV file.
RecordSuccessLogsRow ==
    /\ pc = "refs"
    /\ \E r \in RefResults :
           stats' = add_success(stats, size, r[1], r[2])
    /\ success_count' = success_count + 1
    /\ results' = Append(results, <<idx, "success">>)
    /\ csvRows' = Append(csvRows, <<now, now - start_time, 0, 0>>)
    /\ EndIteration
    /\ UNCHANGED <<inVars, fail_count, failedFile, raised, escaped, dlVars,
                   spc, cur, timestamps, memory_readings, disk_readings,
                   monVars>>

\* ref_count, ref_success = fetch_and_write_references(...);
\* stats.add_success(size_before, size_after, ref_count, ref_success);
\* success_count += 1
RecordSuccess ==
    /\ pc = "refs"
    /\ \E r \in RefResults :
           stats' = add_success(stats, size, r[1], r[2])
    /\ success_count' = success_count + 1
    /\ results' = Append(results, <<idx, "success">>)
    /\ EndIteration
    /\ UNCHANGED <<inVars, fail_count, failedFile, raised, escaped, dlVars,
                   thrVars, monVars>>

\* The step of the try body at which control stands.
StepAt(p) == CASE p = "ensure" -> "ensure"
               [] p = "dl_begin" -> "download"
               [] p = "strip" -> "strip"
               [] p = "metadata" -> "metadata"
               [] p = "refs" -> "refs"
               [] OTHER -> "none"

\* A step of the try body raises an Exception (a directory that cannot be
\* created, a file that cannot be written, ...): control passes to
\* 'except Exception as e'.
StepRaises ==
    /\ StepAt(pc) \in RaisingSteps
    /\ raised' = StepAt(pc)
    /\ pc' = "handler"
    /\ UNCHANGED <<inVars, idx, stats, success_count, fail_count, failedFile,
                   escaped, results, size, versions, dlVars, thrVars, monVars>>

\* A handler that counts the failure but writes no line for it.
HandlerNoLog ==
    /\ pc = "handler"
    /\ stats' = add_failure(stats)
    /\ fail_count' = fail_count + 1
    /\ results' = Append(results, <<idx, "exception">>)
    /\ raised' = "none"
    /\ EndIteration
    /\ UNCHANGED <<inVars, success_count, failedFile, escaped, dlVars,
                   thrVars, monVars>>

\* except Exception as e: log_failed_id(failed_ids_file, base_id, str(e));
\* stats.add_failure(); fail_count += 1
Handler ==
    /\ pc = "handler"
    /\ failedFile' = log_failed_id(failedFile, idx, ExcReason)
    /\ stats' = add_failure(stats)
    /\ fail_count' = fail_count + 1
    /\ results' = Append(results, <<idx, "exception">>)
    /\ raised' = "none"
    /\ EndIteration
    /\ UNCHANGED <<inVars, success_count, escaped, dlVars, thrVars, monVars>>

\* Where an exception is one that 'except Exception' does not absorb: a
\* KeyboardInterrupt while a request is outstanding, or an error raised by
\* the handler's own log_failed_id.
EscapePoints == {"request", "handler"}

\* A run() without try/finally: the exception leaves run() at once.
EscapeNoFinally ==
    /\ pc \in EscapePoints
    /\ escaped' = TRUE
    /\ raised' = "none"
    /\ versions' = <<>>
    /\ size' = <<0, 0>>
    /\ v' = 0
    /\ attempt' = 0
    /\ pc' = "raised"
    /\ UNCHANGED <<inVars, idx, stats, success_count, fail_count, failedFile,
                   results, sinceReq, anyReq, thrVars, monVars>>

\* Such an exception leaves the for loop: control reaches the finally block
\* (the frames of the loop body are gone) and the exception is raised again
\* after it.
Escape ==
    /\ pc \in EscapePoints
    /\ escaped' = TRUE
    /\ raised' = "none"
    /\ versions' = <<>>
    /\ size' = <<0, 0>>
    /\ v' = 0
    /\ attempt' = 0
    /\ pc' = "finally"
    /\ UNCHANGED <<inVars, idx, stats, success_count, fail_count, failedFile,
                   results, sinceReq, anyReq, thrVars, monVars>>

\* ----------------------------------------------------- the sampler thread
\* while not self._stop_monitoring.is_set(): the event is set, the loop and
\* the thread end
SamplerExit ==
    /\ spc = "check"
    /\ stopSet
    /\ spc' = "exit"
    /\ UNCHANGED <<inVars, runVars, dlVars, cur, timestamps, memory_readings,
                   disk_readings, csvRows, monVars>>

\* the event is not set: timestamp = datetime.now();
\* elapsed = time.time() - self.start_time
SamplerBegin ==
    /\ spc = "check"
    /\ ~stopSet
    /\ Len(timestamps) < MaxSamples
    /\ cur' = [ts |-> now, elapsed |-> now - start_time, mem |-> 0, disk |-> 0]
    /\ spc' = "measure"
    /\ UNCHANGED <<inVars, runVars, dlVars, timestamps, memory_readings,
                   disk_readings, csvRows, monVars>>

\* memory_mb = self._get_memory_usage_mb(); disk_mb = self._get_disk_usage_mb()
SamplerMeasure ==
    /\ spc = "measure"
    /\ \E m \in MemValues, d \in DiskValues :
           cur' = [cur EXCEPT !.mem = m, !.disk = d]
    /\ spc' = "app_ts"
    /\ UNCHANGED <<inVars, runVars, dlVars, timestamps, memory_readings,
                   disk_readings, csvRows, monVars>>

\* self.timestamps.append(timestamp)
SamplerAppendTs ==
    /\ spc = "app_ts"
    /\ timestamps' = Append(timestamps, cur.ts)
    /\ spc' = "app_mem"
    /\ UNCHANGED <<inVars, runVars, dlVars, cur, memory_readings,
                   disk_readings, csvRows, monVars>>

\* self.memory_readings.append(memory_mb)
SamplerAppendMem ==
    /\ spc = "app_mem"
    /\ memory_readings' = Append(memory_readings, cur.mem)
    /\ spc' = "app_disk"
    /\ UNCHANGED <<inVars, runVars, dlVars, cur, timestamps, disk_readings,
                   csvRows, monVars>>

\* self.disk_readings.append(disk_mb)
SamplerAppendDisk ==
    /\ spc = "app_disk"
    /\ disk_readings' = Append(disk_readings, cur.disk)
    /\ spc' = "csv"
    /\ UNCHANGED <<inVars, runVars, dlVars, cur, timestamps, memory_readings,
                   csvRows, monVars>>

\* the row [timestamp, elapsed, memory_mb, disk_mb] appended to the CSV file
SamplerCsv ==
    /\ spc = "csv"
    /\ csvRows' = Append(csvRows, <<cur.ts, cur.elapsed, cur.mem, cur.disk>>)
    /\ spc' = "wait"
    /\ UNCHANGED <<inVars, runVars, dlVars, cur, timestamps, memory_readings,
                   disk_readings, monVars>>

\* except Exception: logging.warning("Error writing to benchmark CSV")
SamplerCsvError ==
    /\ spc = "csv"
    /\ spc' = "wait"
    /\ UNCHANGED <<inVars, runVars, dlVars, cur, timestamps, memory_readings,
                   disk_readings, csvRows, monVars>>

\* self._stop_monitoring.wait(self.log_interval) returns
SamplerWait ==
    /\ spc = "wait"
    /\ spc' = "check"
    /\ UNCHANGED <<inVars, runVars, dlVars, cur, timestamps, memory_readings,
                   disk_readings, csvRows, monVars>>

\* ------------------------------------------------ run(): the finally block
\* monitor.stop(): self.end_time = time.time(); self._stop_monitoring.set()
MonitorStop ==
    /\ pc = "finally"
    /\ end_time' = now
    /\ stopSet' = TRUE
    /\ stopCalls' = stopCalls + 1
    /\ pc' = "join"
    /\ UNCHANGED <<inVars, loopVars, dlVars, thrVars, start_time, joined,
                   statsWrites, memSeen, diskSeen, lenAtStop>>

\* What the sampler has appended so far: the lengths of its three lists and
\* the number of rows of the CSV file.
Appended == <<Len(timestamps), Len(memory_readings), Len(disk_readings),
              Len(csvRows)>>

\* stop() returns to run(); lenAtStop notes what had been appended by then.
StopReturns ==
    /\ lenAtStop' = Appended
    /\ pc' = "get_mem"

\* A stop() that sets the event and returns without joining the thread.
MonitorJoinNoWait ==
    /\ pc = "join"
    /\ joined' = TRUE
    /\ StopReturns
    /\ UNCHANGED <<inVars, loopVars, dlVars, thrVars, stopSet, start_time,
                   end_time, stopCalls, statsWrites, memSeen, diskSeen>>

\* Where run() stands once monitor.stop() has returned.
AfterStop == {"get_mem", "get_disk", "set_bench", "write", "done", "raised"}

\* self._monitor_thread.join(timeout=5) returns because the thread ended
MonitorJoin ==
    /\ pc = "join"
    /\ spc = "exit"
    /\ joined' = TRUE
    /\ StopReturns
    /\ UNCHANGED <<inVars, loopVars, dlVars, thrVars, stopSet, start_time,
                   end_time, stopCalls, statsWrites, memSeen, diskSeen>>

\* The thread is inside an operation that can last longer than the join
\* timeout: the measurement (os.walk over the whole output tree).
ThreadBusy == spc = "measure"

\* A join() without timeout: it returns only when the thread has ended.
MonitorJoinUnbounded ==
    /\ pc = "join"
    /\ spc = "exit"
    /\ joined' = TRUE
    /\ StopReturns
    /\ UNCHANGED <<inVars, loopVars, dlVars, thrVars, stopSet, start_time,
                   end_time, stopCalls, statsWrites, memSeen, diskSeen>>

\* self._monitor_thread.join(timeout=5) returns because the 5 s are over
\* while the thread is still alive
MonitorJoinTimeout ==
    /\ pc = "join"
    /\ ThreadBusy
    /\ joined' = FALSE
    /\ StopReturns
    /\ UNCHANGED <<inVars, loopVars, dlVars, thrVars, stopSet, start_time,
                   end_time, stopCalls, statsWrites, memSeen, diskSeen>>

\* total_runtime = monitor.get_total_runtime();
\* memory_stats = monitor.get_memory_stats()
GetMemoryStats ==
    /\ pc = "get_mem"
    /\ memSeen' = [n |-> Len(memory_readings),
                   st |-> ReadingStats(memory_readings)]
    /\ pc' = "get_disk"
    /\ UNCHANGED <<inVars, loopVars, dlVars, thrVars, stopSet, start_time,
                   end_time, joined, stopCalls, statsWrites, diskSeen,
                   lenAtStop>>

\* disk_stats = monitor.get_disk_stats()
GetDiskStats ==
    /\ pc = "get_disk"
    /\ diskSeen' = [n |-> Len(disk_readings),
                    st |-> ReadingStats(disk_readings)]
    /\ pc' = "set_bench"
    /\ UNCHANGED <<inVars, loopVars, dlVars, thrVars, stopSet, start_time,
                   end_time, joined, stopCalls, statsWrites, memSeen,
                   lenAtStop>>

\* stats.set_benchmark_data(total_runtime, memory_stats, disk_stats)
SetBenchmark ==
    /\ pc = "set_bench"
    /\ stats' = [stats EXCEPT !.total_runtime = end_time - start_time,
                              !.memory_stats = memSeen.st,
                              !.disk_stats = diskSeen.st]
    /\ pc' = "write"
    /\ UNCHANGED <<inVars, idx, success_count, fail_count, failedFile, raised,
                   escaped, results, size, versions, dlVars, thrVars, monVars>>

\* monitor.generate_visualizations(); stats.write_to_file("statistics.txt");
\* then run() returns, or the exception that left the loop is raised again
WriteStats ==
    /\ pc = "write"
    /\ statsWrites' = statsWrites + 1
    /\ pc' = IF escaped THEN "raised" ELSE "done"
    /\ UNCHANGED <<inVars, loopVars, dlVars, thrVars, stopSet, start_time,
                   end_time, joined, stopCalls, memSeen, diskSeen,
                   lenAtStop>>

\* --------------------------------------------------------- the whole run
\* The run with the clock left out (a wait or a join may end at any moment)
\* and without the observers of a single download call.
Untimed == UNCHANGED <<obsVars, tVars, probeVars, otherVars>>

Next ==
    \/ RunStart /\ Untimed
    \/ MonitorStart /\ Untimed
    \/ LoopNext /\ Untimed
    \/ LoopExhausted /\ Untimed
    \/ EnsureFolder /\ Untimed
    \/ DownloadBegin /\ Untimed
    \/ Resp200 /\ Untimed
    \/ Resp404 /\ Untimed
    \/ Resp429 /\ Untimed
    \/ RespOther /\ Untimed
    \/ RespTimeout /\ Untimed
    \/ RespError /\ Untimed
    \/ DownloadCapReturn /\ Untimed
    \/ NoVersions /\ Untimed
    \/ HasVersions /\ Untimed
    \/ StripFigures /\ Untimed
    \/ WriteMetadata /\ Untimed
    \/ RecordSuccess /\ Untimed
    \/ StepRaises /\ Untimed
    \/ Handler /\ Untimed
    \/ Escape /\ Untimed
    \/ MonitorStop /\ Untimed
    \/ MonitorJoin /\ Untimed
    \/ MonitorJoinTimeout /\ Untimed
    \/ GetMemoryStats /\ Untimed
    \/ GetDiskStats /\ Untimed
    \/ SetBenchmark /\ Untimed
    \/ WriteStats /\ Untimed
    \/ SamplerExit /\ Untimed
    \/ SamplerBegin /\ Untimed
    \/ SamplerMeasure /\ Untimed
    \/ SamplerAppendTs /\ Untimed
    \/ SamplerAppendMem /\ Untimed
    \/ SamplerAppendDisk /\ Untimed
    \/ SamplerCsv /\ Untimed
    \/ SamplerCsvError /\ Untimed
    \/ SamplerWait /\ Untimed

Spec == Init /\ [][Next]_vars

\* ------------------------------------------- the run over any range
\* range_to may lie below range_from - 1: run() does not check its range.
InitAnyRange ==
    /\ InitRunOver((rangeFrom - 2)..MaxIds)
    /\ logInterval = RunLogInterval
    /\ InitDownload
    /\ InitMonitor
    /\ InitClock
    /\ InitProbeIdle
    /\ InitOther

SpecAnyRange == InitAnyRange /\ [][Next]_vars

\* ------------------------------------- one call of download_all_versions
\* The call observed from outside: tried is the version of the latest
\* request, resps the responses to the requests made for it so far, sleeps
\* the sleeps made between those requests, files the archives written,
\* requests the number of requests.get calls of the call.
ObserveBegin ==
    /\ tried' = 0
    /\ requests' = 0
    /\ resps' = <<>>
    /\ sleeps' = <<>>
    /\ files' = {}

\* with open(filepath, 'wb') as f: f.write(response.content), on status 200
Written(r) == IF r = "200" THEN {v} ELSE {}

ObserveAttempt(r) ==
    /\ tried' = v
    /\ requests' = requests + 1
    /\ resps' = Append(IF attempt = 0 THEN <<>> ELSE resps, r)
    /\ sleeps' = (IF attempt = 0 THEN <<>> ELSE sleeps)
                  \o (IF pc' = "request" /\ v' = v THEN <<sinceReq'>> ELSE <<>>)
    /\ files' = files \cup Written(r)

\* A 200 whose archive cannot be written: open(filepath, 'wb') or f.write
\* raises OSError, which the 'except Exception' of the attempt catches.
\* When it is f.write that raises, open has created the file and what was
\* written of it stays in tex/.
ObserveWriteFails ==
    /\ tried' = v
    /\ requests' = requests + 1
    /\ resps' = Append(IF attempt = 0 THEN <<>> ELSE resps, "200, write fails")
    /\ sleeps' = (IF attempt = 0 THEN <<>> ELSE sleeps)
    /\ \E created \in BOOLEAN :
          files' = IF created THEN files \cup {v} ELSE files

InitDownloadCall ==
    /\ Init
    /\ rangeTo = 1
    /\ failedFile = <<>>

\* run() is followed up to its first call of download_all_versions, then
\* the call alone until it returns.
NextDownload ==
    \/ RunStart /\ Untimed
    \/ MonitorStart /\ Untimed
    \/ LoopNext /\ Untimed
    \/ EnsureFolder /\ Untimed
    \/ DownloadBegin /\ ObserveBegin /\ UNCHANGED <<tVars, probeVars, otherVars>>
    \/ Resp200 /\ ObserveAttempt("200") /\ UNCHANGED <<tVars, probeVars, otherVars>>
    \/ Resp404 /\ ObserveAttempt("404") /\ UNCHANGED <<tVars, probeVars, otherVars>>
    \/ Resp429 /\ ObserveAttempt("429") /\ UNCHANGED <<tVars, probeVars, otherVars>>
    \/ RespOther /\ ObserveAttempt("other") /\ UNCHANGED <<tVars, probeVars, otherVars>>
    \/ RespTimeout /\ ObserveAttempt("timeout") /\ UNCHANGED <<tVars, probeVars, otherVars>>
    \/ RespError /\ ObserveAttempt("error") /\ UNCHANGED <<tVars, probeVars, otherVars>>
    \/ RespError /\ ObserveWriteFails /\ UNCHANGED <<tVars, probeVars, otherVars>>
    \/ DownloadCapReturn /\ UNCHANGED <<obsVars, tVars, probeVars, otherVars>>

SpecDownload == InitDownloadCall /\ [][NextDownload]_vars

\* The same call, where the thread of run() goes on as long as it has a
\* step to take: each request is answered, times out or raises.
SpecDownloadFair == SpecDownload /\ WF_<<pc, v, attempt>>(NextDownload)

\* ------------------------------------------------- write_metadata_json
\* The six fields of metadata.json.  The document built from the paper
\* the arXiv query returned, and the minimal document of the except branch.
FullDocument(vs) ==
    [title |-> "paper.title", authors |-> "paper.authors",
     submission_date |-> "paper.published", revised_dates |-> "paper.updated",
     venue |-> "paper.journal_ref", versions |-> vs]
MinimalDocument(vs) ==
    [title |-> "Unknown", authors |-> <<>>, submission_date |-> "null",
     revised_dates |-> <<>>, venue |-> "arXiv preprint", versions |-> vs]

\* A write_metadata_json whose except branch only logs the error.
write_metadata_json_logging_only ==
    /\ metaQueried' = IF versions = <<>> THEN 0 ELSE versions[Len(versions)]
    /\ metaFault' \in {"none", "query", "write"}
    /\ metaFile' = IF metaFault' = "none" THEN <<FullDocument(versions)>>
                   ELSE <<>>

\* write_metadata_json: the query is made for versions[-1] (for the bare
\* identifier when versions is empty); when the query or the first write
\* raises, the except branch opens metadata.json anew and writes the
\* minimal document.
write_metadata_json ==
    /\ metaQueried' = IF versions = <<>> THEN 0 ELSE versions[Len(versions)]
    /\ metaFault' \in {"none", "query", "write"}
    /\ metaFile' = IF metaFault' = "none" THEN <<FullDocument(versions)>>
                   ELSE <<MinimalDocument(versions)>>

\* ------------------------------ one identifier, its download observed
\* The first identifier of run() from its download to the end of its
\* iteration; the observers keep what the download call saw last.
NextPaper ==
    \/ NextDownload
    \/ NoVersions /\ Untimed
    \/ HasVersions /\ Untimed
    \/ StripFigures /\ Untimed
    \/ WriteMetadata /\ write_metadata_json /\ UNCHANGED <<obsVars, tVars, probeVars, convVars, refVars, decVars>>
    \/ RecordSuccess /\ Untimed
    \/ StepRaises /\ Untimed
    \/ Handler /\ Untimed

SpecPaper == InitDownloadCall /\ [][NextPaper]_vars

\* -------------------------------------- discovery.py: check_paper_exists
\* versions = []; for v in range(1, 11): the first probe
InitProbe ==
    /\ InitRun
    /\ rangeTo = 0
    /\ failedFile = <<>>
    /\ logInterval = RunLogInterval
    /\ InitDownload
    /\ InitMonitor
    /\ InitClock
    /\ InitOther
    /\ ppc = "probe"
    /\ pv = 1
    /\ pversions = <<>>
    /\ perrs = {}

\* A version loop without an upper end.
ProbeAdvanceUnbounded == pv' = pv + 1 /\ ppc' = "probe"

\* the for loop of check_paper_exists goes to its next version, or is
\* exhausted and the function returns versions
ProbeAdvance ==
    IF pv < ProbeMaxVersions
       THEN pv' = pv + 1 /\ ppc' = "probe"
       ELSE pv' = pv /\ ppc' = "done"

\* paper = next(client.results(search)) gives a result:
\* versions.append(...); time.sleep(1.0 / max(rate_limit, 0.1))
ProbeFound ==
    /\ ppc = "probe"
    /\ pversions' = Append(pversions, pv)
    /\ ProbeAdvance
    /\ UNCHANGED perrs

\* except StopIteration: break; return versions
ProbeNoResult ==
    /\ ppc = "probe"
    /\ ppc' = "done"
    /\ UNCHANGED <<pv, pversions, perrs>>

\* except Exception as e: logging.warning(...); time.sleep(2); the loop
\* body ends and the for loop goes on.  perrs notes the versions whose
\* probe raised.
ProbeError ==
    /\ ppc = "probe"
    /\ perrs' = perrs \cup {pv}
    /\ ProbeAdvance
    /\ UNCHANGED pversions

NextProbe ==
    \/ ProbeFound /\ UNCHANGED <<inVars, runVars, dlVars, obsVars, thrVars, monVars, tVars, otherVars>>
    \/ ProbeNoResult /\ UNCHANGED <<inVars, runVars, dlVars, obsVars, thrVars, monVars, tVars, otherVars>>
    \/ ProbeError /\ UNCHANGED <<inVars, runVars, dlVars, obsVars, thrVars, monVars, tVars, otherVars>>

SpecProbe == InitProbe /\ [][NextProbe]_vars

\* ------------------------------------------------ the two version loops
\* Either one call of download_all_versions or one call of
\* check_paper_exists.
InitProbing == InitDownloadCall \/ InitProbe

NextProbing == NextDownload \/ NextProbe

SpecProbing == InitProbing /\ [][NextProbing]_vars

\* ------------------------------------------- the identifier converters
\* A string is the sequence of its characters.  Year-and-month parts and
\* sequence-number parts of identifiers.
YearMonths == {<<"2", "0", "2", "5", "1", "0">>,
               <<"1", "9", "9", "9", "1", "2">>,
               <<"2", "0", "0", "0", "0", "1">>}
Numbers == {<<"0", "0", "8", "2", "4">>, <<"0", "0", "0", "0", "1">>}
Segments == YearMonths \cup Numbers \cup {<<>>}

\* "-".join(segs)
RECURSIVE Join(_)
Join(segs) ==
    IF Len(segs) = 1 THEN segs[1]
    ELSE segs[1] \o <<"-">> \o Join(Tail(segs))

\* The strings a converter is called with: one to MaxSegments segments.
Identifiers ==
    {Join(q) : q \in UNION {[1..n -> Segments] : n \in 1..MaxSegments}}

\* The identifiers 'YYYYMM-NNNNN' that id_range yields.
ValidIds == {ym \o <<"-">> \o n : ym \in YearMonths, n \in Numbers}

\* s.split(sep): the pieces of s between the occurrences of sep
RECURSIVE Split(_, _)
Split(s, sep) ==
    IF \A i \in 1..Len(s) : s[i] /= sep THEN <<s>>
    ELSE LET k == CHOOSE i \in 1..Len(s) :
                      s[i] = sep /\ \A j \in 1..(i - 1) : s[j] /= sep
         IN  <<SubSeq(s, 1, k - 1)>> \o Split(SubSeq(s, k + 1, Len(s)), sep)

\* s[a:b] and s[a:] of Python, 0 <= a <= b
Slice(s, a, b) == SubSeq(s, a + 1, IF b < Len(s) THEN b ELSE Len(s))
SliceFrom(s, a) == SubSeq(s, a + 1, Len(s))

\* How a call ends: it returns a string, raises ValueError, or returns None.
Returned(x) == [kind |-> "returned", value |-> x]
ValueError == [kind |-> "ValueError", value |-> <<>>]
None == [kind |-> "None", value |-> <<>>]

\* downloader.py: _convert_id_format
downloader_convert_id_format(base_id) ==
    LET parts == Split(base_id, "-")
    IN  IF Len(parts) /= 2 THEN ValueError
        ELSE LET yyyymm == parts[1]
                 nnnnn == parts[2]
                 year == Slice(yyyymm, 0, 4)
                 month == Slice(yyyymm, 4, 6)
                 yy == SliceFrom(year, 2)
             IN  Returned(yy \o month \o <<".">> \o nnnnn)

\* metadata.py: _convert_id_format
metadata_convert_id_format(base_id) ==
    LET parts == Split(base_id, "-")
    IN  IF Len(parts) /= 2 THEN ValueError
        ELSE LET yyyymm == parts[1]
                 nnnnn == parts[2]
                 year == Slice(yyyymm, 0, 4)
                 month == Slice(yyyymm, 4, 6)
                 yy == SliceFrom(year, 2)
             IN  Returned(yy \o month \o <<".">> \o nnnnn)

\* refs.py: _convert_id_format: 'return base_id' on an unexpected format
refs_convert_id_format(base_id) ==
    LET parts == Split(base_id, "-")
    IN  IF Len(parts) /= 2 THEN Returned(base_id)
        ELSE LET yyyymm == parts[1]
                 nnnnn == parts[2]
                 year == Slice(yyyymm, 0, 4)
                 month == Slice(yyyymm, 4, 6)
                 yy == SliceFrom(year, 2)
             IN  Returned(yy \o month \o <<".">> \o nnnnn)

\* A _parse_arxiv_id that does not put the century back.
parse_arxiv_id_no_century(arxiv_id) ==
    IF \A i \in 1..Len(arxiv_id) : arxiv_id[i] /= "." THEN None
    ELSE LET parts == Split(arxiv_id, ".")
         IN  Returned(parts[1] \o <<"-">> \o Split(parts[2], "v")[1])

\* refs.py: _parse_arxiv_id
parse_arxiv_id(arxiv_id) ==
    IF \A i \in 1..Len(arxiv_id) : arxiv_id[i] /= "." THEN None
    ELSE LET parts == Split(arxiv_id, ".")
             yymm == parts[1]
             nnnnn == Split(parts[2], "v")[1]
         IN  IF Len(yymm) = 4
                THEN Returned(<<"2", "0">> \o Slice(yymm, 0, 2)
                              \o SliceFrom(yymm, 2) \o <<"-">> \o nnnnn)
             ELSE IF Len(yymm) = 6
                THEN Returned(Slice(yymm, 0, 4) \o SliceFrom(yymm, 4)
                              \o <<"-">> \o nnnnn)
             ELSE None

\* One identifier string, the converters not yet called.
InitConvert ==
    /\ InitRun
    /\ rangeTo = 0
    /\ rateLimit = 1
    /\ failedFile = <<>>
    /\ logInterval = RunLogInterval
    /\ InitDownload
    /\ InitMonitor
    /\ InitClock
    /\ InitProbeIdle
    /\ cin \in Identifiers
    /\ couts = [downloader |-> NotCalled, metadata |-> NotCalled,
                refs |-> NotCalled]
    /\ cback = NotCalled
    /\ InitRefIdle
    /\ InitMetaIdle
    /\ InitDecIdle

\* A call of a converter touches nothing of the run.
ConvOnly == UNCHANGED <<inVars, runVars, dlVars, obsVars, thrVars, monVars,
                        tVars, probeVars, cin, refVars, metaVars, decVars>>

ConvertDownloader ==
    /\ couts.downloader = NotCalled
    /\ couts' = [couts EXCEPT !.downloader = downloader_convert_id_format(cin)]
    /\ UNCHANGED cback

ConvertMetadata ==
    /\ couts.metadata = NotCalled
    /\ couts' = [couts EXCEPT !.metadata = metadata_convert_id_format(cin)]
    /\ UNCHANGED cback

ConvertRefs ==
    /\ couts.refs = NotCalled
    /\ couts' = [couts EXCEPT !.refs = refs_convert_id_format(cin)]
    /\ UNCHANGED cback

\* _parse_arxiv_id applied to what the converter of refs.py returned
ParseBack ==
    /\ couts.refs.kind = "returned"
    /\ cback = NotCalled
    /\ cback' = parse_arxiv_id(couts.refs.value)
    /\ UNCHANGED couts

NextConvert ==
    \/ ConvertDownloader /\ ConvOnly
    \/ ConvertMetadata /\ ConvOnly
    \/ ConvertRefs /\ ConvOnly
    \/ ParseBack /\ ConvOnly

SpecConvert == InitConvert /\ [][NextConvert]_vars

\* --------------------------------------- the Semantic Scholar requests
\* refs.py: max_retries and wait_time (seconds) of the 429 loop
RefsMaxRetries == 10
wait_time == 5
\* refs.py: the 1.0 of _wait_for_rate_limit, in ticks
MinGap == TicksPerSecond

\* The deque after d ticks: the age of its element grows (counted up to
\* MinGap, above which _wait_for_rate_limit does not tell ages apart).
Aged(q, d) == [i \in 1..Len(q) |-> IF q[i] + d < MinGap THEN q[i] + d ELSE MinGap]

\* _wait_for_rate_limit without its sleep
wait_for_rate_limit_no_sleep ==
    /\ lastGap' = api_call_times
    /\ api_call_times' = <<0>>
    /\ granted' = TRUE

\* _wait_for_rate_limit: sleeps what is missing to one second since the
\* recorded grant, then records the present time (deque(maxlen=1): the new
\* time replaces the old one).  time.sleep lasts at least what was asked.
\* lastGap keeps the deque as it was when the new time was recorded: the
\* time between the two grants.
wait_for_rate_limit ==
    /\ IF api_call_times /= <<>> /\ api_call_times[1] < MinGap
          THEN \E over \in 0..MaxOversleep :
                  lastGap' = Aged(api_call_times,
                                  (MinGap - api_call_times[1]) + over)
          ELSE lastGap' = api_call_times
    /\ api_call_times' = <<0>>
    /\ granted' = TRUE

\* requests.get: takes lat ticks; answers with a status or raises.  A
\* request sent without a grant since the request before is counted.
Get(lat, outcome) ==
    /\ api_call_times' = Aged(api_call_times, lat)
    /\ unguarded' = IF granted THEN unguarded ELSE unguarded + 1
    /\ granted' = FALSE
    /\ IF outcome \in {"timeout", "error"}
          THEN rpc' = "write" /\ UNCHANGED r_status
          ELSE rpc' = "loop" /\ r_status' = outcome
    /\ last_outcome' = outcome
    /\ ref_requests' = ref_requests + 1
    /\ UNCHANGED <<lastGap, api_success, ref_entries, refsFile, refReturn>>

Outcomes == {"200", "429", "other", "timeout", "error"}

\* run() calls fetch_and_write_references, some time after the call before
StartFetch ==
    /\ rpc = "idle"
    /\ fetches < MaxFetches
    /\ \E d \in 0..MaxBetween : api_call_times' = Aged(api_call_times, d)
    /\ rpc' = "wait"
    /\ waits' = <<>>
    /\ api_success' = FALSE
    /\ ref_entries' = 0
    /\ refsFile' = <<>>
    /\ refReturn' = <<>>
    /\ ref_requests' = 0
    /\ UNCHANGED <<r_status, retry_count, fetches, lastGap, granted, unguarded,
                   last_outcome>>

\* line 100: the wait before the first request
WaitFirst ==
    /\ rpc = "wait"
    /\ wait_for_rate_limit
    /\ rpc' = "get"
    /\ UNCHANGED <<r_status, retry_count, fetches, unguarded, waits,
                   last_outcome, api_success, ref_entries, refsFile, refReturn,
                   ref_requests>>

\* lines 102-106: the first request
GetFirst ==
    /\ rpc = "get"
    /\ \E lat \in 0..MaxLatency, outcome \in Outcomes : Get(lat, outcome)
    /\ retry_count' = 0
    /\ UNCHANGED <<fetches, waits>>

\* A 429 loop without the limit on retry_count.
SleepOn429Unlimited ==
    /\ rpc = "loop"
    /\ r_status = "429"
    /\ retry_count' = retry_count + 1
    /\ waits' = Append(waits, wait_time)
    /\ \E over \in 0..MaxOversleep :
          api_call_times' = Aged(api_call_times,
                                 wait_time * TicksPerSecond + over)
    /\ rpc' = "wait_retry"
    /\ UNCHANGED <<r_status, fetches, lastGap, granted, unguarded, last_outcome,
                   api_success, ref_entries, refsFile, refReturn,
                   ref_requests>>

\* lines 107-111: a 429 with retries left: count it and sleep wait_time
SleepOn429 ==
    /\ rpc = "loop"
    /\ r_status = "429"
    /\ retry_count < RefsMaxRetries
    /\ retry_count' = retry_count + 1
    /\ waits' = Append(waits, wait_time)
    /\ \E over \in 0..MaxOversleep :
          api_call_times' = Aged(api_call_times,
                                 wait_time * TicksPerSecond + over)
    /\ rpc' = "wait_retry"
    /\ UNCHANGED <<r_status, fetches, lastGap, granted, unguarded, last_outcome,
                   api_success, ref_entries, refsFile, refReturn,
                   ref_requests>>

\* line 112: the wait before a repeated request
WaitRetry ==
    /\ rpc = "wait_retry"
    /\ wait_for_rate_limit
    /\ rpc' = "get_retry"
    /\ UNCHANGED <<r_status, retry_count, fetches, unguarded, waits,
                   last_outcome, api_success, ref_entries, refsFile, refReturn,
                   ref_requests>>

\* line 113: the repeated request
GetRetry ==
    /\ rpc = "get_retry"
    /\ \E lat \in 0..MaxLatency, outcome \in Outcomes : Get(lat, outcome)
    /\ UNCHANGED <<retry_count, fetches, waits>>

\* lines 107, 115-135: the loop ends on an OK response: api_success = True,
\* then r.json() is read and the references with an arXiv id are collected
\* until the list is done or an exception ends the collecting
ResponseOk ==
    /\ rpc = "loop"
    /\ r_status = "200"
    /\ api_success' = TRUE
    /\ ref_entries' \in 0..MaxRefs
    /\ rpc' = "write"
    /\ UNCHANGED <<api_call_times, r_status, retry_count, fetches, lastGap,
                   granted, unguarded, waits, last_outcome, refsFile,
                   refReturn,
                   ref_requests>>

\* lines 107, 136-137: the loop ends on a response that is not OK: another
\* status, or a 429 with the retries used up
LoopEnds ==
    /\ rpc = "loop"
    /\ r_status /= "200"
    /\ ~(r_status = "429" /\ retry_count < RefsMaxRetries)
    /\ rpc' = "write"
    /\ UNCHANGED <<api_call_times, r_status, retry_count, fetches, lastGap,
                   granted, unguarded, waits, last_outcome, api_success,
                   ref_entries, refsFile, refReturn,
                   ref_requests>>

\* A fetch that writes references.json only when the service answered.
WriteReferencesIfAnswered ==
    /\ rpc = "write"
    /\ refsFile' = IF api_success THEN <<ref_entries>> ELSE refsFile
    /\ refReturn' = <<ref_entries, api_success>>
    /\ rpc' = "idle"
    /\ fetches' = fetches + 1
    /\ UNCHANGED <<api_call_times, r_status, retry_count, lastGap, granted,
                   unguarded, waits, last_outcome, api_success, ref_entries,
                   ref_requests>>

\* lines 145-150: references.json is written with the entries collected
\* and (len(refs), api_success) returned
WriteReferences ==
    /\ rpc = "write"
    /\ refsFile' = <<ref_entries>>
    /\ refReturn' = <<ref_entries, api_success>>
    /\ rpc' = "idle"
    /\ fetches' = fetches + 1
    /\ UNCHANGED <<api_call_times, r_status, retry_count, lastGap, granted,
                   unguarded, waits, last_outcome, api_success, ref_entries,
                   ref_requests>>

\* The module as imported, everything else at rest.
InitRefs ==
    /\ InitRun
    /\ rangeTo = 0
    /\ rateLimit = 1
    /\ failedFile = <<>>
    /\ logInterval = RunLogInterval
    /\ InitDownload
    /\ InitMonitor
    /\ InitClock
    /\ InitProbeIdle
    /\ InitConvIdle
    /\ InitRefIdle
    /\ InitMetaIdle
    /\ InitDecIdle

RefsOnly == UNCHANGED <<inVars, runVars, dlVars, obsVars, thrVars, monVars,
                        tVars, probeVars, convVars, metaVars, decVars>>

NextRefs ==
    \/ StartFetch /\ RefsOnly
    \/ WaitFirst /\ RefsOnly
    \/ GetFirst /\ RefsOnly
    \/ SleepOn429 /\ RefsOnly
    \/ WaitRetry /\ RefsOnly
    \/ GetRetry /\ RefsOnly
    \/ ResponseOk /\ RefsOnly
    \/ LoopEnds /\ RefsOnly
    \/ WriteReferences /\ RefsOnly

SpecRefs == InitRefs /\ [][NextRefs]_vars

\* The same, where the calling thread goes on as long as it has a step to
\* take: each request is answered or raises, each sleep ends.
SpecRefsFair == SpecRefs /\ WF_rpc(NextRefs)

\* ------------------------------------------------- the retry decorator
\* b to the power n
RECURSIVE Pow(_, _)
Pow(b, n) == IF n = 0 THEN 1 ELSE b * Pow(b, n - 1)

\* What one call of the wrapped function does: it returns, raises an
\* exception of a class listed in 'exceptions', or raises another one.
\* The value and the exceptions carry the number of the call.
Value(k) == [kind |-> "return", of |-> k]
Listed(k) == [kind |-> "listed", of |-> k]
Unlisted(k) == [kind |-> "unlisted", of |-> k]

\* wrapper(*args, **kwargs) is called: _delay = delay, and the for loop
\* over range(1, max_tries + 1) begins; with max_tries < 1 the range is
\* empty and the wrapper returns None.
RetryCall ==
    /\ rpcw = "idle"
    /\ cur_delay' = delay
    /\ IF max_tries >= 1
          THEN /\ try_attempt' = 1
               /\ rpcw' = "try"
               /\ UNCHANGED ended
          ELSE /\ rpcw' = "done"
               /\ ended' = <<[kind |-> "return None"]>>
               /\ UNCHANGED try_attempt
    /\ UNCHANGED <<max_tries, delay, backoff, calls, retry_sleeps>>

\* return func(*args, **kwargs)
RetryReturns ==
    /\ rpcw = "try"
    /\ calls' = Append(calls, Value(try_attempt))
    /\ ended' = <<Value(try_attempt)>>
    /\ rpcw' = "done"
    /\ UNCHANGED <<max_tries, delay, backoff, try_attempt, cur_delay,
                   retry_sleeps>>

\* A handler of listed exceptions that sleeps the same delay every time.
RetryListedFixedDelay ==
    /\ rpcw = "try"
    /\ calls' = Append(calls, Listed(try_attempt))
    /\ IF try_attempt = max_tries
          THEN /\ ended' = <<Listed(try_attempt)>>
               /\ rpcw' = "done"
               /\ UNCHANGED <<try_attempt, cur_delay, retry_sleeps>>
          ELSE /\ retry_sleeps' = Append(retry_sleeps, cur_delay)
               /\ try_attempt' = try_attempt + 1
               /\ UNCHANGED <<rpcw, ended, cur_delay>>
    /\ UNCHANGED <<max_tries, delay, backoff>>

\* except exceptions as e: raise on the last attempt; otherwise log,
\* time.sleep(_delay), _delay *= backoff, and the next attempt
RetryListed ==
    /\ rpcw = "try"
    /\ calls' = Append(calls, Listed(try_attempt))
    /\ IF try_attempt = max_tries
          THEN /\ ended' = <<Listed(try_attempt)>>
               /\ rpcw' = "done"
               /\ UNCHANGED <<try_attempt, cur_delay, retry_sleeps>>
          ELSE /\ retry_sleeps' = Append(retry_sleeps, cur_delay)
               /\ cur_delay' = cur_delay * backoff
               /\ try_attempt' = try_attempt + 1
               /\ UNCHANGED <<rpcw, ended>>
    /\ UNCHANGED <<max_tries, delay, backoff>>

\* An exception the except clause does not name leaves the wrapper.
RetryUnlisted ==
    /\ rpcw = "try"
    /\ calls' = Append(calls, Unlisted(try_attempt))
    /\ ended' = <<Unlisted(try_attempt)>>
    /\ rpcw' = "done"
    /\ UNCHANGED <<max_tries, delay, backoff, try_attempt, cur_delay,
                   retry_sleeps>>

\* A function decorated with retry(max_tries, delay, backoff, exceptions),
\* everything else at rest.
InitRetry ==
    /\ InitRun
    /\ rangeTo = 0
    /\ rateLimit = 1
    /\ failedFile = <<>>
    /\ logInterval = RunLogInterval
    /\ InitDownload
    /\ InitMonitor
    /\ InitClock
    /\ InitProbeIdle
    /\ InitConvIdle
    /\ InitRefIdle
    /\ InitMetaIdle
    /\ InitLimIdle
    /\ rpcw = "idle"
    /\ max_tries \in 0..MaxTriesArg
    /\ delay \in 0..MaxDelayArg
    /\ backoff \in 1..MaxBackoffArg
    /\ try_attempt = 0
    /\ cur_delay = 0
    /\ calls = <<>>
    /\ retry_sleeps = <<>>
    /\ ended = <<>>

RetryOnly == UNCHANGED <<inVars, runVars, dlVars, obsVars, thrVars, monVars,
                         tVars, probeVars, convVars, refVars, metaVars,
                         limVars>>

NextRetry ==
    \/ RetryCall /\ RetryOnly
    \/ RetryReturns /\ RetryOnly
    \/ RetryListed /\ RetryOnly
    \/ RetryUnlisted /\ RetryOnly

SpecRetry == InitRetry /\ [][NextRetry]_vars

\* ------------------------------------------ the rate_limited decorator
\* wrapper(*args, **kwargs) is called d seconds after the call before
\* ended: elapsed = time.time() - last_call[0]; if it is below
\* min_interval_sec the wrapper sleeps what is missing (time.sleep lasts at
\* least that long); then func begins.
LimCall ==
    /\ lpc = "idle"
    /\ Len(starts) < MaxCalls
    /\ \E d \in 0..MaxIdle, over \in 0..MaxOversleep :
          LET t == clock + d
              elapsed == t - last_call
              began == IF elapsed < min_interval_sec
                          THEN t + (min_interval_sec - elapsed) + over
                          ELSE t
          IN  /\ clock' = began
              /\ starts' = Append(starts, began)
    /\ lpc' = "func"
    /\ UNCHANGED <<min_interval_sec, last_call, raises>>

\* result = func(*args, **kwargs) returns; last_call[0] = time.time();
\* return result
LimReturn ==
    /\ lpc = "func"
    /\ \E dur \in 0..MaxDuration :
          /\ clock' = clock + dur
          /\ last_call' = clock + dur
    /\ raises' = Append(raises, FALSE)
    /\ lpc' = "idle"
    /\ UNCHANGED <<min_interval_sec, starts>>

\* func(*args, **kwargs) raises: the exception leaves the wrapper before
\* the assignment to last_call[0]
LimRaise ==
    /\ lpc = "func"
    /\ \E dur \in 0..MaxDuration : clock' = clock + dur
    /\ raises' = Append(raises, TRUE)
    /\ lpc' = "idle"
    /\ UNCHANGED <<min_interval_sec, last_call, starts>>

\* A function decorated with rate_limited(min_interval_sec), everything
\* else at rest.  last_call = [0.0]; time.time() counts the seconds since
\* 1970 and is far above min_interval_sec, so the first call never sleeps:
\* the clock starts at the largest interval.
InitLimited ==
    /\ InitRun
    /\ rangeTo = 0
    /\ rateLimit = 1
    /\ failedFile = <<>>
    /\ logInterval = RunLogInterval
    /\ InitDownload
    /\ InitMonitor
    /\ InitClock
    /\ InitProbeIdle
    /\ InitConvIdle
    /\ InitRefIdle
    /\ InitMetaIdle
    /\ InitRetryIdle
    /\ lpc = "idle"
    /\ min_interval_sec \in 1..MaxIntervalArg
    /\ clock = MaxIntervalArg
    /\ last_call = 0
    /\ starts = <<>>
    /\ raises = <<>>

LimOnly == UNCHANGED <<inVars, runVars, dlVars, obsVars, thrVars, monVars,
                       tVars, probeVars, convVars, refVars, metaVars,
                       retryVars>>

NextLimited ==
    \/ LimCall /\ LimOnly
    \/ LimReturn /\ LimOnly
    \/ LimRaise /\ LimOnly

SpecLimited == InitLimited /\ [][NextLimited]_vars

\* ------------------------------------------------- the run with a clock
\* Values of log_interval: one below and one above the join timeout.
LogIntervals == {2, 6}

\* One identifier, which the service answers with 404, is processed while
\* the sampler runs; the request for it lasts any number of seconds.
InitTimed ==
    /\ InitRun
    /\ rangeTo = 1
    /\ rateLimit = 1
    /\ failedFile = <<>>
    /\ logInterval \in LogIntervals
    /\ InitDownload
    /\ InitMonitor
    /\ InitClock
    /\ InitProbeIdle
    /\ InitOther

\* A wait that ignores the event: time.sleep(self.log_interval).
SleepOver == now >= waitDeadline

\* self._stop_monitoring.wait(self.log_interval) returns when the event is
\* set or when log_interval seconds have passed, whichever comes first.
WaitOver == stopSet \/ now >= waitDeadline

\* A join that has no timeout.
JoinNeverExpires == FALSE

\* join(timeout=5): the 5 s since stop() began to join are over.
JoinExpired == pc = "join" /\ now >= joinStart + JoinTimeout

\* Where time passes for run(): while a request is outstanding, while
\* stop() joins the thread, and once run() is over.
MainLetsTimePass == pc \in {"request", "join", "done", "raised"}

\* Where time passes for the sampler: before it is started and after it has
\* ended, during a measurement, and in a wait that is not over.
SamplerLetsTimePass ==
    \/ spc \in {"none", "measure", "exit"}
    \/ spc = "wait" /\ ~WaitOver

\* One second passes; busy counts the seconds spent measuring.
Tick ==
    /\ now < MaxTime
    /\ MainLetsTimePass
    /\ ~JoinExpired
    /\ SamplerLetsTimePass
    /\ now' = now + 1
    /\ busy' = IF spc = "measure" THEN busy + 1 ELSE busy
    /\ UNCHANGED <<inVars, runVars, dlVars, obsVars, thrVars, monVars,
                   waitDeadline, joinStart, probeVars, otherVars>>

\* A step that takes no time and touches neither a deadline nor the
\* observers of a download call.
Instant == UNCHANGED <<obsVars, tVars, probeVars, otherVars>>

\* The sampler enters self._stop_monitoring.wait(self.log_interval).
EnterWait ==
    /\ waitDeadline' = now + logInterval
    /\ UNCHANGED <<obsVars, now, joinStart, busy, probeVars, otherVars>>

\* stop() begins self._monitor_thread.join(timeout=5).
EnterJoin ==
    /\ joinStart' = now
    /\ UNCHANGED <<obsVars, now, waitDeadline, busy, probeVars, otherVars>>

\* The steps of the sampler thread, with the clock.
SamplerTimed ==
    \/ SamplerExit /\ Instant
    \/ SamplerBegin /\ Instant
    \/ SamplerMeasure /\ Instant
    \/ SamplerAppendTs /\ Instant
    \/ SamplerAppendMem /\ Instant
    \/ SamplerAppendDisk /\ Instant
    \/ SamplerCsv /\ EnterWait
    \/ SamplerCsvError /\ EnterWait
    \/ SamplerWait /\ WaitOver /\ Instant

NextTimed ==
    \/ RunStart /\ Instant
    \/ MonitorStart /\ Instant
    \/ LoopNext /\ Instant
    \/ LoopExhausted /\ Instant
    \/ EnsureFolder /\ Instant
    \/ DownloadBegin /\ Instant
    \/ Resp404 /\ Instant
    \/ NoVersions /\ Instant
    \/ MonitorStop /\ EnterJoin
    \/ MonitorJoin /\ Instant
    \/ MonitorJoinTimeout /\ JoinExpired /\ Instant
    \/ GetMemoryStats /\ Instant
    \/ GetDiskStats /\ Instant
    \/ SetBenchmark /\ Instant
    \/ WriteStats /\ Instant
    \/ SamplerTimed
    \/ Tick

\* The thread of the sampler is scheduled: a step it can take is taken.
SpecTimed == InitTimed /\ [][NextTimed]_vars /\ WF_vars(SamplerTimed)

\* ------------------------------------- the finally block with a clock
\* The steps of run() from monitor.stop() to the written statistics.
FinallyTimed ==
    \/ MonitorStop /\ EnterJoin
    \/ MonitorJoin /\ Instant
    \/ MonitorJoinTimeout /\ JoinExpired /\ Instant
    \/ GetMemoryStats /\ Instant
    \/ GetDiskStats /\ Instant
    \/ SetBenchmark /\ Instant
    \/ WriteStats /\ Instant

\* The steps of the sampler other than the end of a measurement.
SamplerQuick == SamplerTimed /\ spc /= "measure"

\* The main thread runs and time passes; the sampler is scheduled too, but
\* a measurement it has begun need never end.
SpecStop ==
    /\ InitTimed
    /\ [][NextTimed]_vars
    /\ WF_pc(FinallyTimed)
    /\ WF_now(Tick)
    /\ WF_spc(SamplerQuick)

\* =============================================================== properties
\* C1 (SpecDownload): download_all_versions returns its versions without a
\* gap.  At every moment of the call the list is <<1, ..., K>> with
\* K <= 10, and every version in it had its archive written on a 200
\* response, so version k+1 is in the list only if 1..k were downloaded.
C1_NoGap ==
    /\ Len(versions) <= 10
    /\ \A i \in 1..Len(versions) : versions[i] = i /\ i \in files

\* The call has returned three versions after a fourth request that failed.
C1_Witness ==
    /\ pc = "check_versions"
    /\ versions = <<1, 2, 3>>
    /\ tried = 4

\* C4 (SpecDownload): a version answered 429, 429, 200 is recorded, and
\* the sleeps between its three requests are 5 s then 10 s, 15 s in all;
\* no version is requested more than three times.
C4_Backoff ==
    /\ Len(resps) <= 3
    /\ resps = <<"429", "429", "200">> =>
           /\ sleeps = <<5, 10>>
           /\ SeqSum(sleeps) = 15
           /\ tried \in files
           /\ versions /= <<>>
           /\ versions[Len(versions)] = tried

\* The second version answered 429, 429, 200.
C4_Witness ==
    /\ resps = <<"429", "429", "200">>
    /\ tried = 2

\* C2 (SpecProbe), as stated: once the probe of a version has raised an
\* unexpected error, check_paper_exists has returned, the versions it
\* returns are below that version, and its list is <<1, ..., K>>.
C2_EndsOnError ==
    /\ perrs /= {} =>
           /\ ppc = "done"
           /\ \A e \in perrs : \A i \in 1..Len(pversions) : pversions[i] < e
    /\ \A i \in 1..Len(pversions) : pversions[i] = i

\* C3 (Spec), as stated: every request of run() for a version archive but
\* the first is made after a sleep of at least 3 s since the request
\* before it.
C3_RateGate == [][RequestStep /\ anyReq => sinceReq >= 3]_vars

\* C5 (Spec): whatever happens in the loop, monitor.stop() is called once
\* and statistics.txt written once, stop() before the write, and the
\* statistics written carry what the accessors of the monitor returned.
C5_Cleanup ==
    /\ stopCalls <= 1
    /\ statsWrites <= 1
    /\ pc \in {"done", "raised"} => statsWrites = 1
    /\ statsWrites = 1 =>
           /\ stopCalls = 1
           /\ memSeen.n >= 0
           /\ diskSeen.n >= 0
           /\ stats.memory_stats = memSeen.st
           /\ stats.disk_stats = diskSeen.st
           /\ stats.total_runtime = end_time - start_time

\* An exception left the loop during the second identifier, and the
\* statistics were written all the same.
C5_Witness ==
    /\ pc = "raised"
    /\ Len(results) = 1
    /\ statsWrites = 1

C9_Interruptible ==
    /\ [](spc = "wait" /\ stopSet =>
              now = Max(end_time, waitDeadline - logInterval))
    /\ [][stopSet /\ spc \in {"wait", "check"} => spc' /= "measure"]_vars
    /\ (stopSet ~> spc = "exit")

\* With log_interval above the join timeout, the thread has ended, after a
\* sample, before the interval of its last wait was over.
C9_Witness ==
    /\ logInterval > JoinTimeout
    /\ stopSet
    /\ spc = "exit"
    /\ Len(timestamps) = 1
    /\ now > 0
    /\ now < waitDeadline

C11_ExhaustedIsFailure ==
    ( /\ Len(resps) = 3
      /\ resps[3] \in {"429", "timeout"}
      /\ results /= <<>> ) =>
        /\ results[1][2] /= "success"
        /\ stats.failed_papers = 1
        /\ stats.successful_papers = 0
        /\ Len(failedFile) = 1

\* C12 (SpecDownload), as stated: when download_all_versions returns, it
\* has slept at least 3 s since its latest request.
C12_CooldownBeforeReturn == pc = "check_versions" => sinceReq >= 3

C18_StopsAtFirstAbsence ==
    /\ tried <= Len(versions) + 1
    /\ pc = "check_versions" /\ resps = <<"404">> =>
           /\ tried <= 10
           /\ versions = [i \in 1..(tried - 1) |-> i]
           /\ files = 1..(tried - 1)

\* 200 for versions 1 to 3, 404 for version 4: the call has returned
\* <<1, 2, 3>>.
C18_Witness ==
    /\ pc = "check_versions"
    /\ resps = <<"404">>
    /\ tried = 4
    /\ versions = <<1, 2, 3>>
    /\ files = {1, 2, 3}

\* C19 (SpecProbing): neither version loop goes above version 10.  The
\* version requested by download_all_versions and the version probed by
\* check_paper_exists are at most 10, and once version 10 has been found
\* the function returns what it has.
C19_NoVersionAboveTen ==
    /\ v <= 10
    /\ tried <= 10
    /\ pv <= 10
    /\ Len(versions) = 10 => pc \in {"cap", "check_versions"}
    /\ Len(pversions) = 10 => ppc = "done"
    /\ \A i \in 1..Len(pversions) : pversions[i] <= 10

\* download_all_versions has returned ten versions, the tenth request
\* answered 200.
C19_Witness ==
    /\ pc = "check_versions"
    /\ Len(versions) = 10
    /\ tried = 10
    /\ resps = <<"200">>

\* C17 (Spec), as stated: run() never ends by raising; it returns, with
\* the statistics written.
C17_ReturnsNormally ==
    /\ pc /= "raised"
    /\ pc = "done" => statsWrites = 1

\* C13 (SpecConvert), as stated: each of the three converters raises the
\* format error on a string that does not have exactly two '-'-separated
\* segments, and returns YYMM.NNNNN on a valid identifier YYYYMM-NNNNN.
C13_InvalidRaises ==
    \A f \in {"downloader", "metadata", "refs"} :
        couts[f] /= NotCalled =>
            /\ Cardinality({i \in 1..Len(cin) : cin[i] = "-"}) /= 1 =>
                   couts[f] = ValueError
            /\ cin \in ValidIds =>
                   couts[f] = Returned(SubSeq(cin, 3, 6) \o <<".">>
                                       \o SubSeq(cin, 8, 12))

\* C20 (SpecConvert), as stated: for every valid identifier,
\* _parse_arxiv_id(_convert_id_format(id)) returns id.
C20_RoundTrip ==
    cin \in ValidIds /\ cback /= NotCalled => cback = Returned(cin)

\* C20 (SpecConvert), amended: for every valid identifier the round trip
\* returns '20' followed by the identifier without its first two
\* characters, which is the identifier itself when its year is 2000-2099.
C20_RoundTripThisCentury ==
    cin \in ValidIds /\ cback /= NotCalled =>
        /\ cback = Returned(<<"2", "0">> \o SubSeq(cin, 3, 12))
        /\ cin[1] = "2" /\ cin[2] = "0" => cback = Returned(cin)

\* 202510-00824 has been converted and parsed back into itself.
C20_Witness ==
    /\ cin = <<"2", "0", "2", "5", "1", "0", "-", "0", "0", "8", "2", "4">>
    /\ couts.refs = Returned(<<"2", "5", "1", "0", ".", "0", "0", "8", "2", "4">>)
    /\ cback = Returned(cin)

\* C14 (SpecRefs): every Semantic Scholar request of
\* fetch_and_write_references, a repeated one after a 429 and the first one
\* of a later paper included, is preceded by its own _wait_for_rate_limit,
\* and the grant time a wait records is at least one second after the
\* grant time recorded before it.
C14_RequestsOneSecondApart ==
    /\ unguarded = 0
    /\ \A i \in 1..Len(lastGap) : lastGap[i] >= MinGap

\* The first request for a second paper has been answered; its wait
\* recorded a grant a second or more after the grant before.
C14_Witness ==
    /\ fetches = 1
    /\ rpc = "loop"
    /\ retry_count = 0
    /\ lastGap = <<MinGap>>
    /\ unguarded = 0

\* C15 (SpecRefs), as stated: the sleep before the k-th repeated request
\* after consecutive 429 answers lasts 5 * 2^(k-1) seconds.
C15_BackoffDoubles ==
    \A k \in 1..Len(waits) : waits[k] = 5 * 2 ^ (k - 1)

\* C21 (SpecDownload): a used-up retry budget ends the call without a
\* crash.  No version is requested a fourth time, and when the three
\* requests for a version were each answered 429 or timed out, the call
\* has returned the versions below it and no higher version was requested.
C21_ExhaustedReturns ==
    /\ attempt <= MaxRetries - 1
    /\ Len(resps) = 3 /\ (\A k \in 1..3 : resps[k] \in {"429", "timeout"}) =>
           /\ pc = "check_versions"
           /\ raised = "none"
           /\ versions = [i \in 1..(tried - 1) |-> i]

\* Version 2 timed out three times: the call has returned <<1>>.
C21_Witness ==
    /\ resps = <<"timeout", "timeout", "timeout">>
    /\ tried = 2
    /\ pc = "check_versions"
    /\ versions = <<1>>

\* C22 (SpecDownload): the sleep after a timed-out request is 5 s whatever
\* the attempt, the same version is requested again, and a version whose
\* requests time out gets at most three requests.
C22_TimeoutFixedDelay ==
    /\ \A k \in 1..Len(sleeps) : resps[k] = "timeout" => sleeps[k] = 5
    /\ resps /= <<>> /\ resps[Len(resps)] = "timeout" =>
           \/ Len(resps) < 3 /\ pc = "request" /\ v = tried
           \/ Len(resps) = 3 /\ pc = "check_versions"

\* A version answered after two timeouts: 5 s slept after each.
C22_Witness ==
    /\ resps = <<"timeout", "timeout", "200">>
    /\ sleeps = <<5, 5>>
    /\ tried = 1

\* C23 (SpecDownload): another HTTP status or a non-timeout exception ends
\* the call at once: it is the last request of the call, and the call has
\* returned the versions below the one requested, none at version 1.
C23_OtherIsTerminal ==
    resps /= <<>> /\ resps[Len(resps)] \in {"other", "error"} =>
        /\ pc = "check_versions"
        /\ versions = [i \in 1..(tried - 1) |-> i]
        /\ tried = 1 => versions = <<>>

\* The second request for version 2 raised a connection error.
C23_Witness ==
    /\ resps = <<"429", "error">>
    /\ tried = 2
    /\ pc = "check_versions"
    /\ versions = <<1>>

\* C27 (SpecDownload), as stated: once download_all_versions has
\* returned, tex/ holds an archive written by the call for exactly the
\* versions of the returned list.
C27_FilesAreVersions ==
    pc = "check_versions" => files = {versions[i] : i \in 1..Len(versions)}

\* C24 (SpecStop): stop() does not hang on the sampler.  While stop()
\* joins the thread at most the join timeout passes, and once stop() has
\* begun to join (early enough for the timeout to lie within the time
\* observed) run() goes on to write the statistics and returns, also when
\* the measurement the sampler is in never ends.
C24_StopDoesNotHang ==
    /\ [](pc = "join" => now <= joinStart + JoinTimeout)
    /\ (pc = "join" /\ joinStart + JoinTimeout <= MaxTime)
           ~> (pc = "done" /\ statsWrites = 1)

\* run() has returned with the statistics written while the sampler is
\* still inside the measurement it was in when the join timed out.
C24_Witness ==
    /\ pc = "done"
    /\ statsWrites = 1
    /\ ~joined
    /\ spc = "measure"
    /\ now >= joinStart + JoinTimeout

\* C25 (Spec): the state is partitioned.  A step of the sampler thread
\* leaves the statistics object as it is; a step of the loop over the
\* identifiers leaves the three sample lists and the rows of the CSV log
\* as they are; and the memory and disk figures of the statistics change
\* only in the set_benchmark_data step, which comes after stop().
C25_Partitioned == [][(spc' /= spc => stats' = stats) /\ (pc' /= pc /\ pc \in {"loop", "ensure", "dl_begin", "request", "cap", "check_versions", "strip", "metadata", "refs", "handler"} => UNCHANGED <<timestamps, memory_readings, disk_readings, csvRows>>) /\ (pc /= "set_bench" => stats'.memory_stats = stats.memory_stats /\ stats'.disk_stats = stats.disk_stats) /\ (pc = "set_bench" => stopSet /\ stopCalls = 1)]_vars

\* One paper recorded and one sample taken, and the statistics have just
\* received the figures of the sampler.
C25_Witness ==
    /\ pc = "write"
    /\ stats.successful_papers = 1
    /\ Len(csvRows) = 1
    /\ Len(memory_readings) = 1
    /\ stats.memory_stats = ReadingStats(memory_readings)

\* C26 (Spec), as stated: whenever the sampler is in its wait between two
\* samples, the CSV log has one row for each sample of the lists, and the
\* rows are in the order of the samples.
C26_RowForEachSample ==
    spc = "wait" =>
        /\ Len(csvRows) = Len(timestamps)
        /\ Len(csvRows) = Len(memory_readings)
        /\ Len(csvRows) = Len(disk_readings)
        /\ \A i \in 1..Len(csvRows) :
               i <= Len(timestamps) => csvRows[i][1] = timestamps[i]

C30_EachIdentifierOnce ==
    /\ \A i \in 1..Len(results) : results[i][1] = rangeFrom + i - 1
    /\ stats.successful_papers + stats.failed_papers = Len(results)
    /\ pc \in {"finally", "join"} \cup AfterStop =>
           Len(results) = rangeTo - rangeFrom + 1

\* C31 (SpecAnyRange), as stated: the statistics are consistent.  The
\* success counter, the two lists and the attempts counter agree; the
\* papers with references are the recorded papers with a reference count
\* above 0; and the two counters of run() add up to the identifiers
\* processed so far, which is never more than total_papers.
C31_Consistent ==
    /\ stats.successful_papers = Len(stats.paper_sizes)
    /\ stats.successful_papers = Len(stats.reference_counts)
    /\ stats.successful_papers = stats.papers_attempted_references
    /\ stats.papers_with_references <= stats.papers_attempted_references
    /\ stats.papers_with_references = Cardinality({i \in 1..Len(stats.reference_counts) : stats.reference_counts[i] > 0})
    /\ stats.successful_papers + stats.failed_papers = Len(results)
    /\ pc /= "start" => stats.successful_papers + stats.failed_papers <= stats.total_papers

\* What holds over every range: the same, with the bound by total_papers
\* for the ranges with range_to >= range_from - 1; for a range_to below
\* that, total_papers is negative and the counters stay at 0.
C31_ConsistentForProperRanges ==
    /\ stats.successful_papers = Len(stats.paper_sizes)
    /\ stats.successful_papers = Len(stats.reference_counts)
    /\ stats.successful_papers = stats.papers_attempted_references
    /\ stats.papers_with_references <= stats.papers_attempted_references
    /\ stats.papers_with_references = Cardinality({i \in 1..Len(stats.reference_counts) : stats.reference_counts[i] > 0})
    /\ stats.successful_papers + stats.failed_papers = Len(results)
    /\ pc /= "start" /\ rangeTo >= rangeFrom - 1 =>
           stats.successful_papers + stats.failed_papers <= stats.total_papers
    /\ pc /= "start" /\ rangeTo < rangeFrom - 1 =>
           /\ stats.total_papers < 0
           /\ stats.successful_papers + stats.failed_papers = 0

\* C32 (SpecDownloadFair): download_all_versions terminates.  One call
\* makes at most MaxVersions * MaxRetries = 30 requests; the version
\* counter advances only in the step that records the version; and a call
\* that is making requests returns to run().
C32_Terminates ==
    /\ [](requests <= MaxVersions * MaxRetries)
    /\ [][pc = "request" /\ v' /= v => (versions' = Append(versions, v) /\ v' = v + 1) \/ pc' = "check_versions"]_vars
    /\ (pc = "request") ~> (pc = "check_versions")

\* Every version took three attempts, the third answered with 200: the
\* call has returned ten versions after thirty requests.
C32_Witness ==
    /\ pc = "check_versions"
    /\ requests = 30
    /\ Len(versions) = 10

\* C33 (SpecRefsFair): fetch_and_write_references terminates under a
\* service that answers 429 for ever.  A call makes at most
\* RefsMaxRetries + 1 = 11 requests; a call whose last answer was a 429
\* (every answer before it was one too, the loop repeats a request only
\* after a 429) has made 11 requests and returns (0, False); and every
\* call that has begun returns.
C33_Terminates ==
    /\ [](ref_requests <= RefsMaxRetries + 1)
    /\ [](rpc = "idle" /\ refReturn /= <<>> /\ last_outcome = "429" => ref_requests = 11 /\ retry_count = 10 /\ refReturn = <<0, FALSE>>)
    /\ (rpc /= "idle") ~> (rpc = "idle" /\ refReturn /= <<>>)

\* A call answered with 429 eleven times has returned (0, False) after
\* ten sleeps.
C33_Witness ==
    /\ rpc = "idle"
    /\ last_outcome = "429"
    /\ ref_requests = 11
    /\ Len(waits) = 10
    /\ refReturn = <<0, FALSE>>

\* C34 (SpecRetry): the retry decorator.  The wrapped function is called
\* at most max_tries times, and again only after a listed exception, so
\* nothing is called after the first success or after an exception that
\* is not listed; the k-th failed attempt with k < max_tries is followed
\* by a sleep of delay * backoff^(k-1); and the wrapper ends with the
\* value of the successful call, with the exception of the max_tries-th
\* call, or with the unlisted exception.
C34_Retry ==
    /\ Len(calls) <= max_tries
    /\ \A k \in 1..(Len(calls) - 1) : calls[k].kind = "listed"
    /\ \A k \in 1..Len(calls) : calls[k].of = k
    /\ Len(retry_sleeps) = Cardinality({k \in 1..Len(calls) : calls[k].kind = "listed" /\ k < max_tries})
    /\ \A k \in 1..Len(retry_sleeps) : retry_sleeps[k] = delay * Pow(backoff, k - 1)
    /\ rpcw = "try" => Len(calls) < max_tries /\ try_attempt = Len(calls) + 1
    /\ rpcw = "done" /\ calls /= <<>> =>
           /\ ended = <<calls[Len(calls)]>>
           /\ ended[1].kind = "listed" => Len(calls) = max_tries
    /\ rpcw = "done" /\ calls = <<>> => max_tries < 1

\* Four attempts that all raised a listed exception: three sleeps of 2, 6
\* and 18 seconds, and the fourth exception leaves the wrapper.
C34_Witness ==
    /\ rpcw = "done"
    /\ max_tries = 4
    /\ Len(calls) = 4
    /\ retry_sleeps = <<2, 6, 18>>
    /\ ended = <<Listed(4)>>

\* C35 (SpecLimited), as stated: every two consecutive calls of the
\* wrapped function begin at least min_interval_sec apart, whether or not
\* the wrapped function raises.
C35_AlwaysApart ==
    \A i \in 1..(Len(starts) - 1) : starts[i + 1] - starts[i] >= min_interval_sec

\* What holds: a call that follows a call that returned begins at least
\* min_interval_sec after that call began.
C35_ApartAfterReturn ==
    \A i \in 1..(Len(starts) - 1) :
        ~raises[i] => starts[i + 1] - starts[i] >= min_interval_sec
====
